---- MODULE Spec2Model ----
(***************************************************************************)
(* Model of clone_and_setup.py: a sequential pipeline that checks that git *)
(* and pdm are on PATH, resolves a destination directory, mirror-clones a  *)
(* repository, sets the repository-local identity, runs `pdm install` and  *)
(* optionally pushes branches and tags to a second remote.                 *)
(*                                                                         *)
(* A text is a sequence of atoms.  Locators, path names and captured       *)
(* output are split into single characters; fixed program literals such as *)
(* "clone" or "Command failed: " are kept as one atom.                     *)
(***************************************************************************)
EXTENDS Integers, Sequences, FiniteSets, TLC

(* ------------------------------ bounds -------------------------------- *)

\* longest path part of a locator drawn by InitDerive
MaxPathLen == 6
\* longest captured output stream of an external command
MaxOutLen == 2

(* --------------------------- text helpers ----------------------------- *)

\* f(v) with v evaluated once, before the call, as Python evaluates an
\* argument before it enters the function
Eager(v, f(_)) == CHOOSE r \in {f(x) : x \in {v}} : TRUE

\* s[a..b], empty when a > b
Slice(s, a, b) == IF a > b THEN << >> ELSE SubSeq(s, a, b)

\* the least member of a set of indices, 0 for the empty set
Least(hits) ==
    IF hits = {} THEN 0 ELSE CHOOSE i \in hits : \A j \in hits : i <= j

\* the greatest member of a set of indices, 0 for the empty set
Greatest(hits) ==
    IF hits = {} THEN 0 ELSE CHOOSE i \in hits : \A j \in hits : j <= i

\* str.find(c, start): least index >= start holding c, 0 when there is none
Find(s, c, start) ==
    Eager(s, LAMBDA t :
        Eager({i \in start..Len(t) : t[i] = c}, LAMBDA hits : Least(hits)))

\* str.rfind(c): greatest index holding c, 0 when there is none
RFind(s, c) ==
    Eager(s, LAMBDA t :
        Eager({i \in 1..Len(t) : t[i] = c}, LAMBDA hits : Greatest(hits)))

\* str.rstrip(chars)
RECURSIVE RStrip(_, _)
RStrip(s, chars) ==
    Eager(s, LAMBDA t :
        IF t # << >> /\ t[Len(t)] \in chars
        THEN RStrip(SubSeq(t, 1, Len(t) - 1), chars)
        ELSE t)

\* str.lstrip(chars)
RECURSIVE LStrip(_, _)
LStrip(s, chars) ==
    Eager(s, LAMBDA t :
        IF t # << >> /\ t[1] \in chars THEN LStrip(Tail(t), chars) ELSE t)

Whitespace == {" ", "\n", "\t"}

\* str.strip()
Strip(s) == LStrip(RStrip(s, Whitespace), Whitespace)

\* str.endswith(suffix)
EndsWith(s, suffix) ==
    Eager(s, LAMBDA t :
        /\ Len(t) >= Len(suffix)
        /\ SubSeq(t, Len(t) - Len(suffix) + 1, Len(t)) = suffix)

\* str.split(sep): the pieces between occurrences of the atom sep
RECURSIVE Split(_, _)
Split(s, sep) ==
    Eager(s, LAMBDA t :
        Eager(Find(t, sep, 1), LAMBDA i :
            IF i = 0 THEN << t >>
            ELSE << Slice(t, 1, i - 1) >> \o Split(Slice(t, i + 1, Len(t)), sep)))

\* sep.join(parts)
RECURSIVE Join(_, _)
Join(parts, sep) ==
    IF parts = << >> THEN << >>
    ELSE IF Len(parts) = 1 THEN parts[1]
    ELSE parts[1] \o sep \o Join(Tail(parts), sep)

\* needle in hay (contiguous)
Contains(hay, needle) ==
    \E i \in 1..(Len(hay) + 1) :
        /\ i + Len(needle) - 1 <= Len(hay)
        /\ Slice(hay, i, i + Len(needle) - 1) = needle

(* ------------------------ urllib.parse.urlparse ----------------------- *)

Letters == {"f", "g", "h", "i", "o", "p", "q", "s", "t", "x"}
SchemeChars == Letters \cup {"+", "-", "."}

\* schemes for which urlparse splits ";params" off the last path segment
UsesParams ==
    { << >>, <<"f","t","p">>, <<"h","t","t","p">>, <<"h","t","t","p","s">>,
      <<"s","f","t","p">> }

\* urlsplit step 1: "scheme:" prefix
SplitScheme(url) ==
    Eager(url, LAMBDA u :
        Eager(Find(u, ":", 1), LAMBDA i :
            IF /\ i > 1
               /\ u[1] \in Letters
               /\ \A k \in 1..(i - 1) : u[k] \in SchemeChars
            THEN [scheme |-> Slice(u, 1, i - 1), rest |-> Slice(u, i + 1, Len(u))]
            ELSE [scheme |-> << >>, rest |-> u]))

\* urlsplit step 2: "//netloc" up to the first of "/", "?", "#"
SplitNetloc(url) ==
    Eager(url, LAMBDA u :
        IF Len(u) >= 2 /\ u[1] = "/" /\ u[2] = "/"
        THEN Eager({i \in 3..Len(u) : u[i] \in {"/", "?", "#"}}, LAMBDA ends :
                 Eager(IF ends = {} THEN Len(u) + 1 ELSE Least(ends), LAMBDA e :
                     [netloc |-> Slice(u, 3, e - 1), rest |-> Slice(u, e, Len(u))]))
        ELSE [netloc |-> << >>, rest |-> u])

\* str.split(c, 1)[0]
Before(url, c) ==
    Eager(url, LAMBDA u :
        Eager(Find(u, c, 1), LAMBDA i :
            IF i = 0 THEN u ELSE Slice(u, 1, i - 1)))

\* _splitparams: ";params" of the last path segment
SplitParams(url) ==
    Eager(url, LAMBDA u :
        Eager(RFind(u, "/"), LAMBDA slash :
            Eager(IF slash > 0 THEN Find(u, ";", slash) ELSE Find(u, ";", 1),
                  LAMBDA i : IF i = 0 THEN u ELSE Slice(u, 1, i - 1))))

\* urlparse(url).path
UrlPath(url) ==
    Eager(SplitScheme(url), LAMBDA s :
        Eager(Before(Before(SplitNetloc(s.rest).rest, "#"), "?"), LAMBDA u2 :
            IF s.scheme \in UsesParams /\ Find(u2, ";", 1) > 0
            THEN SplitParams(u2)
            ELSE u2))

(* --------------------------- pathlib.Path ----------------------------- *)

\* the parts of a POSIX path below its root: empty and "." pieces are dropped
PathParts(s) == SelectSeq(Split(s, "/"), LAMBDA p : p # << >> /\ p # <<".">>)

\* Path(s).name
PathName(s) ==
    Eager(PathParts(s), LAMBDA parts :
        IF parts = << >> THEN << >> ELSE parts[Len(parts)])

(* ------------------------- derive_repo_dir ---------------------------- *)

DotGit == <<".", "g", "i", "t">>

MsgNoName   == <<"Could not derive repository name from URL">>
MsgEmptyGit == <<"Repository name resolved to empty after stripping .git">>

\* derive_repo_dir cutting three characters ("git") instead of four
derive_repo_dir_keeps_dot(repo_url) ==
    LET tail1 == PathName(RStrip(UrlPath(repo_url), {"/"}))
        tail2 == IF EndsWith(tail1, DotGit)
                 THEN Slice(tail1, 1, Len(tail1) - 3)
                 ELSE tail1
    IN  IF tail1 = << >> THEN [ok |-> FALSE, tail |-> tail1, msg |-> MsgNoName]
        ELSE IF tail2 = << >> THEN [ok |-> FALSE, tail |-> tail2, msg |-> MsgEmptyGit]
        ELSE [ok |-> TRUE, tail |-> tail2, msg |-> << >>]

\* derive_repo_dir without the second emptiness check (lines 55-56)
derive_repo_dir_unchecked(repo_url) ==
    LET tail1 == PathName(RStrip(UrlPath(repo_url), {"/"}))
        tail2 == IF EndsWith(tail1, DotGit)
                 THEN Slice(tail1, 1, Len(tail1) - 4)
                 ELSE tail1
    IN  IF tail1 = << >> THEN [ok |-> FALSE, tail |-> tail1, msg |-> MsgNoName]
        ELSE [ok |-> TRUE, tail |-> tail2, msg |-> << >>]

\* the outcome of derive_repo_dir(repo_url): the local `tail` at exit and,
\* when it raised, the ValueError's message
derive_repo_dir(repo_url) ==
    LET tail1 == PathName(RStrip(UrlPath(repo_url), {"/"}))
        tail2 == IF EndsWith(tail1, DotGit)
                 THEN Slice(tail1, 1, Len(tail1) - 4)
                 ELSE tail1
    IN  IF tail1 = << >> THEN [ok |-> FALSE, tail |-> tail1, msg |-> MsgNoName]
        ELSE IF tail2 = << >> THEN [ok |-> FALSE, tail |-> tail2, msg |-> MsgEmptyGit]
        ELSE [ok |-> TRUE, tail |-> tail2, msg |-> << >>]

\* Path(s): whether it is absolute, and its parts
PathOf(s) == [abs |-> (s # << >> /\ s[1] = "/"), parts |-> PathParts(s)]

\* dest / name
PathJoin(p, name) == [abs |-> p.abs, parts |-> Append(p.parts, name)]

\* str(path)
PathStr(p) ==
    IF p.parts = << >> THEN (IF p.abs THEN <<"/">> ELSE <<".">>)
    ELSE (IF p.abs THEN <<"/">> ELSE << >>) \o Join(p.parts, <<"/">>)

\* the process's working directory, /w
Cwd == << <<"w">> >>

\* ".." parts removed against the parts before them
RECURSIVE Collapse(_, _)
Collapse(done, todo) ==
    IF todo = << >> THEN done
    ELSE IF Head(todo) = <<".", ".">>
         THEN Collapse(Slice(done, 1, Len(done) - 1), Tail(todo))
         ELSE Collapse(Append(done, Head(todo)), Tail(todo))

\* a repo_dir left as it was given, relative to the working directory
Resolve_unresolved(p) == p

\* Path.resolve(): absolute, without ".." (no symbolic links in the model)
Resolve(p) ==
    [abs |-> TRUE,
     parts |-> Collapse(<< >>, IF p.abs THEN p.parts ELSE Cwd \o p.parts)]

(* ------------------------------ state --------------------------------- *)

VARIABLES
    prev,        \* what the previous run in this file system did, if there was one
    args,        \* the parsed command line (argparse.Namespace)
    path_tools,  \* the executables shutil.which finds on PATH
    fs,          \* existing directories below the roots -> what they hold
    remote,      \* ref namespaces the push target has received
    pc,          \* the statement of main() that runs next
    tail,        \* derive_repo_dir's local `tail` when it returned or raised
    repo_dir,    \* main's local repo_dir
    trace,       \* the external commands issued so far, with their status
    out,         \* lines printed to stdout
    err,         \* lines printed to stderr
    result,      \* the CompletedProcess of the command that failed, if any
    exc,         \* the exception that ended the run, if any
    status       \* << >> while running, then << exit status >>

vars == << prev, args, path_tools, fs, remote, pc, tail, repo_dir, trace, out, err,
           result, exc, status >>

Https == <<"h","t","t","p","s",":","/","/","x">>

\* https://x/o/t.git, https://x/t/, https://x, https://x/.git
RunLocators ==
    { Https \o <<"/","o","/","t",".","g","i","t">>,
      Https \o <<"/","t","/">>,
      Https,
      Https \o <<"/",".","g","i","t">> }

PathChars == {"/", ".", "g", "i", "t"}

RECURSIVE TextsUpTo(_, _)
TextsUpTo(chars, n) ==
    IF n = 0 THEN { << >> }
    ELSE LET shorter == TextsUpTo(chars, n - 1)
         IN  shorter \cup {Append(t, c) : t \in shorter, c \in chars}

\* locators of InitDerive: [scheme://host] path [?query | #fragment | ;params]
DeriveLocators ==
    { pre \o p \o suf :
        pre \in { << >>, Https },
        p   \in TextsUpTo(PathChars, MaxPathLen),
        suf \in { << >>, <<"?","q">>, <<"#","f">>, <<";","p">> } }

DestChoices == { << >>, <<"d">> }
PushChoices == { << >>, Https \o <<"/","u">> }

NoPath == [abs |-> FALSE, parts |-> << >>]
NoTail == [set |-> FALSE, text |-> << >>]
NoResult == [rc |-> 0, stdout |-> << >>, stderr |-> << >>]
NoPrev == [ran |-> FALSE, trace |-> << >>, status |-> << >>]
NoExc  == [kind |-> "none", msg |-> << >>, caught |-> FALSE]

\* directories that may exist before the run: /w/t and /w/d
Candidates == { Cwd \o << <<"t">> >>, Cwd \o << <<"d">> >> }

\* an existence test on the repository data below p instead of on p itself
Exists_git_dir(p) == Append(p.parts, DotGit) \in DOMAIN fs

\* a clone step without the existence test
Exists_never(p) == FALSE

\* p is an existing directory: one fs records, or the working directory or
\* one of its ancestors
Exists(p) ==
    \/ p.parts \in DOMAIN fs
    \/ /\ Len(p.parts) <= Len(Cwd)
       /\ p.parts = SubSeq(Cwd, 1, Len(p.parts))

ArgSets ==
    [repo_url : RunLocators, user_name : {<<"A">>}, user_email : {<<"a@x">>},
     dest : DestChoices, push_to : PushChoices]

InitCommon ==
    /\ remote = {}
    /\ tail = NoTail
    /\ repo_dir = NoPath
    /\ trace = << >>
    /\ out = << >>
    /\ err = << >>
    /\ result = NoResult
    /\ exc = NoExc
    /\ status = << >>

Init ==
    /\ prev = NoPrev
    /\ args \in ArgSets
    /\ path_tools \in SUBSET {"git", "pdm"}
    /\ fs \in {[d \in S |-> {"preexisting"}] : S \in SUBSET Candidates}
    /\ pc = "ensure_git"
    /\ InitCommon

(* ------------------------- raising and exit --------------------------- *)

\* the statements of main() inside its try block (lines 118-133)
InTry(p) ==
    p \in {"clone_check", "clone_mirror", "core_bare", "checkout", "user_name",
           "user_email", "pdm_install", "push_check", "remote_add",
           "push_heads", "push_tags", "done"}

\* an error boundary that tells the kinds of failure apart by exit status
exit_status_by_kind(caught) == IF caught THEN 1 ELSE 2

\* an error boundary that reports the error and returns 0
exit_status_zero(caught) == IF caught THEN 0 ELSE 1

\* the exit status of a run ended by an exception: `return 1` at line 136
\* when it was caught, the interpreter's status 1 when it was not
exit_status(caught) == IF caught THEN 1 ELSE 1

\* an exception raised by the statement at pc: caught by `except Exception`
\* (print "Error: <message>" to stderr, return 1), or, outside the try
\* block, left to the interpreter (traceback on stderr, exit status 1)
Raise(kind, msg) ==
    /\ exc' = [kind |-> kind, msg |-> msg, caught |-> InTry(pc)]
    /\ err' = Append(err, IF InTry(pc)
                          THEN <<"Error: ">> \o msg
                          ELSE <<"Traceback (most recent call last):", "\n",
                                 kind, ": ">> \o msg)
    /\ status' = << exit_status(InTry(pc)) >>
    /\ pc' = "exited"

NoRaise == UNCHANGED << exc, err, status >>

(* ----------------------------- ensure_tool ---------------------------- *)

\* ensure_tool with the pdm check forgotten
ensure_tool_only_git(tool) == tool = "git" /\ tool \notin path_tools

\* shutil.which(tool) is None
ensure_tool(tool) == tool \notin path_tools

MsgTool(tool) == <<"Required tool '", tool, "' is not installed or not on PATH">>

\* the tool checks in the other order: pdm is looked up before git
EnsureGit_pdm_first ==
    /\ pc = "ensure_git"
    /\ IF ensure_tool("pdm")
       THEN Raise("RuntimeError", MsgTool("pdm"))
       ELSE IF ensure_tool("git")
       THEN Raise("RuntimeError", MsgTool("git"))
       ELSE pc' = "ensure_pdm" /\ NoRaise
    /\ UNCHANGED << prev, args, path_tools, fs, remote, tail, repo_dir, trace, out, result >>

\* line 112
EnsureGit ==
    /\ pc = "ensure_git"
    /\ IF ensure_tool("git")
       THEN Raise("RuntimeError", MsgTool("git"))
       ELSE pc' = "ensure_pdm" /\ NoRaise
    /\ UNCHANGED << prev, args, path_tools, fs, remote, tail, repo_dir, trace, out, result >>

\* line 113
EnsurePdm ==
    /\ pc = "ensure_pdm"
    /\ IF ensure_tool("pdm")
       THEN Raise("RuntimeError", MsgTool("pdm"))
       ELSE pc' = "select_dir" /\ NoRaise
    /\ UNCHANGED << prev, args, path_tools, fs, remote, tail, repo_dir, trace, out, result >>

(* ------------------------- resolving repo_dir ------------------------- *)

\* line 115 with the name derived from the locator first, whatever --dest is
SelectRepoDir_always_derives ==
    /\ pc = "select_dir"
    /\ LET r == derive_repo_dir(args.repo_url)
       IN  /\ tail' = [set |-> TRUE, text |-> r.tail]
           /\ IF r.ok
              THEN /\ repo_dir' = PathOf(IF args.dest # << >> THEN args.dest ELSE r.tail)
                   /\ pc' = "resolve_dir"
                   /\ NoRaise
              ELSE /\ repo_dir' = repo_dir
                   /\ Raise("ValueError", r.msg)
    /\ UNCHANGED << prev, args, path_tools, fs, remote, trace, out, result >>

\* line 115: Path(args.dest) if args.dest else derive_repo_dir(args.repo_url)
SelectRepoDir ==
    /\ pc = "select_dir"
    /\ IF args.dest # << >>
       THEN /\ repo_dir' = PathOf(args.dest)
            /\ tail' = tail
            /\ pc' = "resolve_dir"
            /\ NoRaise
       ELSE LET r == derive_repo_dir(args.repo_url)
            IN  /\ tail' = [set |-> TRUE, text |-> r.tail]
                /\ IF r.ok
                   THEN /\ repo_dir' = PathOf(r.tail)
                        /\ pc' = "resolve_dir"
                        /\ NoRaise
                   ELSE /\ repo_dir' = repo_dir
                        /\ Raise("ValueError", r.msg)
    /\ UNCHANGED << prev, args, path_tools, fs, remote, trace, out, result >>

\* line 116
ResolveRepoDir ==
    /\ pc = "resolve_dir"
    /\ repo_dir' = Resolve(repo_dir)
    /\ pc' = "clone_check"
    /\ UNCHANGED << prev, args, path_tools, fs, remote, tail, trace, out, err,
                    result, exc, status >>

(* -------------------------------- run --------------------------------- *)

ReturnCodes == {0, 1, 128}

\* what a command may write to one of its output streams
Streams == TextsUpTo({"o", "\n"}, MaxOutLen)

NoCwd == [given |-> FALSE, path |-> NoPath]
\* run() called without its cwd argument
In_unset(dir) == [given |-> FALSE, path |-> NoPath]

In(dir) == [given |-> TRUE, path |-> dir]

\* run() taking only status 1 for a failure
run_fails_only_one(rc) == rc = 1

\* line 68: result.returncode != 0
run_fails(rc) == rc # 0

\* a message whose stderr section is added only inside the stdout branch
run_message_nested(cmd, res) ==
    LET stdout == Strip(res.stdout)
        stderr == Strip(res.stderr)
    IN  <<"Command failed: ">> \o Join(cmd, <<" ">>)
        \o (IF stdout # << >>
            THEN <<"\n", "stdout:", "\n">> \o stdout
                 \o (IF stderr # << >> THEN <<"\n", "stderr:", "\n">> \o stderr
                     ELSE << >>)
            ELSE << >>)

\* lines 69-75: the RuntimeError's message
run_message(cmd, res) ==
    LET stdout == Strip(res.stdout)
        stderr == Strip(res.stderr)
    IN  <<"Command failed: ">> \o Join(cmd, <<" ">>)
        \o (IF stdout # << >> THEN <<"\n", "stdout:", "\n">> \o stdout ELSE << >>)
        \o (IF stderr # << >> THEN <<"\n", "stderr:", "\n">> \o stderr ELSE << >>)

\* a failure path that removes the destination directory again
Effect_cleanup(step, rc, leftover) ==
    LET d == repo_dir.parts
    IN  /\ fs' = IF rc # 0
                 THEN [x \in DOMAIN fs \ {d} |-> fs[x]]
                 ELSE IF step = "clone_mirror" THEN (d :> {"mirror"}) @@ fs
                 ELSE IF step \in {"core_bare", "checkout", "user_name", "user_email",
                                   "pdm_install", "remote_add"}
                           /\ d \in DOMAIN fs
                 THEN [fs EXCEPT ![d] = @ \cup {step}]
                 ELSE fs
        /\ remote' = IF rc = 0 /\ step = "push_heads" THEN remote \cup {"heads"}
                     ELSE IF rc = 0 /\ step = "push_tags" THEN remote \cup {"tags"}
                     ELSE remote

\* what the external tool did to the file system and to the push target
\* when the command of step `step` exited with status rc
Effect(step, rc, leftover) ==
    LET d == repo_dir.parts
    IN  /\ fs' = IF step = "clone_mirror"
                 THEN (IF rc = 0 THEN (d :> {"mirror"}) @@ fs
                       ELSE IF leftover THEN (d :> {"partial"}) @@ fs
                       ELSE fs)
                 ELSE IF rc = 0 /\ step \in {"core_bare", "checkout", "user_name",
                                             "user_email", "pdm_install", "remote_add"}
                           /\ d \in DOMAIN fs
                 THEN [fs EXCEPT ![d] = @ \cup {step}]
                 ELSE fs
        /\ remote' = IF rc = 0 /\ step = "push_heads" THEN remote \cup {"heads"}
                     ELSE IF rc = 0 /\ step = "push_tags" THEN remote \cup {"tags"}
                     ELSE remote

\* run() that issues a failed command again instead of raising
run_retry(cmd, cwd, next) ==
    \E rc \in ReturnCodes :
        /\ trace' = Append(trace, [argv |-> cmd, cwd |-> cwd, rc |-> rc])
        /\ result' = result
        /\ Effect(pc, rc, FALSE)
        /\ pc' = IF run_fails(rc) THEN pc ELSE next
        /\ NoRaise

\* run(cmd, cwd) called by the statement at pc, which is followed by `next`.
\* The captured streams are read only when the status is not 0 (lines 69-70).
run(cmd, cwd, next) ==
    \E rc \in ReturnCodes :
        /\ trace' = Append(trace, [argv |-> cmd, cwd |-> cwd, rc |-> rc])
        /\ IF run_fails(rc)
           THEN \E so \in Streams, se \in Streams, leftover \in BOOLEAN :
                    LET res == [rc |-> rc, stdout |-> so, stderr |-> se]
                    IN  /\ (leftover => pc = "clone_mirror")
                        /\ result' = res
                        /\ Effect(pc, rc, leftover)
                        /\ Raise("RuntimeError", run_message(cmd, res))
           ELSE /\ result' = result
                /\ Effect(pc, rc, FALSE)
                /\ pc' = next
                /\ NoRaise

(* ----------------------------- clone_repo ----------------------------- *)

MsgExists(dest) == <<"Destination already exists: ">> \o PathStr(dest)

\* lines 119 and 80-81
CloneCheck ==
    /\ pc = "clone_check"
    /\ out' = Append(out, <<"Cloning ">> \o args.repo_url \o <<" into ">>
                          \o PathStr(repo_dir) \o <<" ...">>)
    /\ IF Exists(repo_dir)
       THEN Raise("FileExistsError", MsgExists(repo_dir))
       ELSE pc' = "clone_mirror" /\ NoRaise
    /\ UNCHANGED << prev, args, path_tools, fs, remote, tail, repo_dir, trace, result >>

CmdCloneMirror ==
    << <<"git">>, <<"clone">>, <<"--mirror">>, args.repo_url,
       PathStr(PathJoin(repo_dir, DotGit)) >>

\* line 83
CloneMirror ==
    /\ pc = "clone_mirror"
    /\ run(CmdCloneMirror, NoCwd, "core_bare")
    /\ UNCHANGED << prev, args, path_tools, tail, repo_dir, out >>

CmdCoreBare == << <<"git">>, <<"config">>, <<"--bool">>, <<"core.bare">>, <<"false">> >>

\* line 85
CloneCoreBare ==
    /\ pc = "core_bare"
    /\ run(CmdCoreBare, In(repo_dir), "checkout")
    /\ UNCHANGED << prev, args, path_tools, tail, repo_dir, out >>

CmdCheckout == << <<"git">>, <<"checkout">> >>

\* line 87
CloneCheckout ==
    /\ pc = "checkout"
    /\ run(CmdCheckout, In(repo_dir), "user_name")
    /\ UNCHANGED << prev, args, path_tools, tail, repo_dir, out >>

(* --------------------------- set_git_config --------------------------- *)

\* user.name written to the user's global configuration
CmdUserName_global ==
    << <<"git">>, <<"config">>, <<"--global">>, <<"user.name">>, args.user_name >>

CmdUserName == << <<"git">>, <<"config">>, <<"user.name">>, args.user_name >>

CmdUserEmail == << <<"git">>, <<"config">>, <<"user.email">>, args.user_email >>

\* lines 122 and 91
SetUserName ==
    /\ pc = "user_name"
    /\ out' = Append(out, <<"Setting local git user.name/email ...">>)
    /\ run(CmdUserName, In(repo_dir), "user_email")
    /\ UNCHANGED << prev, args, path_tools, tail, repo_dir >>

\* line 92
SetUserEmail ==
    /\ pc = "user_email"
    /\ run(CmdUserEmail, In(repo_dir), "pdm_install")
    /\ UNCHANGED << prev, args, path_tools, tail, repo_dir, out >>

(* --------------------------- run_pdm_install -------------------------- *)

CmdPdmInstall == << <<"pdm">>, <<"install">> >>

\* lines 125 and 96 (the printed line without its backquotes)
PdmInstall ==
    /\ pc = "pdm_install"
    /\ out' = Append(out, <<"Running pdm install ...">>)
    /\ run(CmdPdmInstall, In(repo_dir), "push_check")
    /\ UNCHANGED << prev, args, path_tools, tail, repo_dir >>

(* --------------------------- push_to_github --------------------------- *)

\* a push phase that does not depend on --push-to
wants_push_always == TRUE

\* line 128: if args.push_to
wants_push == args.push_to # << >>

\* lines 128-129
PushCheck ==
    /\ pc = "push_check"
    /\ IF wants_push
       THEN /\ out' = Append(out, <<"Pushing to ">> \o args.push_to
                                  \o <<" (preserving commit history) ...">>)
            /\ pc' = "remote_add"
       ELSE /\ out' = out
            /\ pc' = "done"
    /\ UNCHANGED << prev, args, path_tools, fs, remote, tail, repo_dir, trace, err,
                    result, exc, status >>

\* a ref-spec of every reference, whatever its namespace
Refspec_all(ns) == <<"refs/", "*", ":", "refs/", "*">>

\* refs/<namespace>/*:refs/<namespace>/*
Refspec(ns) == <<"refs/", ns, "/*", ":", "refs/", ns, "/*">>

CmdRemoteAdd == << <<"git">>, <<"remote">>, <<"add">>, <<"target">>, args.push_to >>
CmdPushHeads == << <<"git">>, <<"push">>, <<"target">>, Refspec("heads") >>
CmdPushTags == << <<"git">>, <<"push">>, <<"target">>, Refspec("tags") >>

\* line 102
RemoteAdd ==
    /\ pc = "remote_add"
    /\ run(CmdRemoteAdd, In(repo_dir), "push_heads")
    /\ UNCHANGED << prev, args, path_tools, tail, repo_dir, out >>

\* line 105
PushHeads ==
    /\ pc = "push_heads"
    /\ run(CmdPushHeads, In(repo_dir), "push_tags")
    /\ UNCHANGED << prev, args, path_tools, tail, repo_dir, out >>

\* line 106
PushTags ==
    /\ pc = "push_tags"
    /\ run(CmdPushTags, In(repo_dir), "done")
    /\ UNCHANGED << prev, args, path_tools, tail, repo_dir, out >>

(* -------------------------------- main -------------------------------- *)

\* lines 132-133
Done ==
    /\ pc = "done"
    /\ out' = Append(out, <<"Done.">>)
    /\ status' = << 0 >>
    /\ pc' = "exited"
    /\ UNCHANGED << prev, args, path_tools, fs, remote, tail, repo_dir, trace, err,
                    result, exc >>

Next ==
    \/ EnsureGit
    \/ EnsurePdm
    \/ SelectRepoDir
    \/ ResolveRepoDir
    \/ CloneCheck
    \/ CloneMirror
    \/ CloneCoreBare
    \/ CloneCheckout
    \/ SetUserName
    \/ SetUserEmail
    \/ PdmInstall
    \/ PushCheck
    \/ RemoteAdd
    \/ PushHeads
    \/ PushTags
    \/ Done

Spec == Init /\ [][Next]_vars

\* the run under the scheduling of a sequential program: a statement that
\* can run does run, and a launched command exits
FairSpec == Spec /\ WF_vars(Next)

\* the script started a second time with the same command line, PATH and
\* working directory, on the file system the first run left behind
Rerun ==
    /\ pc = "exited"
    /\ ~prev.ran
    /\ prev' = [ran |-> TRUE, trace |-> trace, status |-> status]
    /\ pc' = "ensure_git"
    /\ tail' = NoTail
    /\ repo_dir' = NoPath
    /\ trace' = << >>
    /\ out' = << >>
    /\ err' = << >>
    /\ result' = NoResult
    /\ exc' = NoExc
    /\ status' = << >>
    /\ UNCHANGED << args, path_tools, fs, remote >>

NextRerun == Next \/ Rerun

SpecRerun == Init /\ [][NextRerun]_vars

\* derive_repo_dir on every bounded locator: main() stands at line 115 with
\* both tools found
InitDerive ==
    /\ prev = NoPrev
    /\ args \in [repo_url : DeriveLocators, user_name : {<<"A">>},
                 user_email : {<<"a@x">>}, dest : DestChoices,
                 push_to : {<< >>}]
    /\ path_tools = {"git", "pdm"}
    /\ fs = << >>
    /\ pc = "select_dir"
    /\ InitCommon

NextDerive == SelectRepoDir

SpecDerive == InitDerive /\ [][NextDerive]_vars

(* ------------------------------ claims -------------------------------- *)

Missing == {"git", "pdm"} \ path_tools

FirstMissing == IF "git" \in Missing THEN "git" ELSE "pdm"

Failed(i) == trace[i].rc # 0

\* C1: when git or pdm is not on PATH the run never issues an external
\* command and never gets past the tool checks; it ends with the
\* configuration error naming the first missing tool and a non-zero status.
C1_MissingToolNoCommand ==
    Missing # {} =>
        /\ trace = << >>
        /\ \A d \in DOMAIN fs : fs[d] = {"preexisting"}
        /\ remote = {}
        /\ pc \in {"ensure_git", "ensure_pdm", "exited"}
        /\ pc = "exited" =>
              /\ exc.kind = "RuntimeError"
              /\ exc.msg = MsgTool(FirstMissing)
              /\ status # << 0 >>

\* C1 witness: git is found, pdm is not, a push target and a destination are
\* given, and the run has ended.
C1_Witness ==
    /\ pc = "exited"
    /\ Missing = {"pdm"}
    /\ args.push_to # << >>
    /\ args.dest # << >>
    /\ exc.kind = "RuntimeError"

\* C2: every error that ends a run is caught by the error boundary of
\* main(): stderr holds exactly the line "Error: <message>", and the run
\* leaves main() by `return 1`.
C2_AllErrorsAtBoundary ==
    (pc = "exited" /\ exc.kind # "none") =>
        /\ exc.caught
        /\ err = << <<"Error: ">> \o exc.msg >>
        /\ status = << 1 >>

Derivable == args.dest # << >> \/ derive_repo_dir(args.repo_url).ok

Target ==
    Resolve(PathOf(IF args.dest # << >> THEN args.dest
                   ELSE derive_repo_dir(args.repo_url).tail))

\* the destination existed when the clone step started: nothing was issued,
\* so fs is still the initial file system
Preexisting == Missing = {} /\ Derivable /\ trace = << >> /\ Target.parts \in DOMAIN fs

AnyFailure ==
    \/ Missing # {}
    \/ ~Derivable
    \/ Preexisting
    \/ \E i \in DOMAIN trace : Failed(i)

\* C3: a finished run has exit status 1 if a tool was missing, derivation
\* failed, the destination already existed or a command exited non-zero,
\* and exit status 0 otherwise.
C3_ExitStatus ==
    pc = "exited" => status = << IF AnyFailure THEN 1 ELSE 0 >>

\* C3 witness: a run that failed before the error boundary (derivation).
C3_Witness ==
    /\ pc = "exited"
    /\ Missing = {}
    /\ ~Derivable
    /\ status = << 1 >>

\* C4: a step issues a command or changes the file system or the push
\* target only if every command issued before it exited with status 0.
C4_AbortOnFirstFailure ==
    [][ (trace' # trace \/ fs' # fs \/ remote' # remote)
            => \A i \in DOMAIN trace : ~Failed(i) ]_vars

\* C4 witness: the run ended because its fourth or a later command failed.
C4_Witness ==
    /\ pc = "exited"
    /\ Len(trace) >= 4
    /\ Failed(Len(trace))
    /\ trace[Len(trace)].rc = 128

\* C5: a clone step that starts while the resolved destination exists ends
\* the run with the error "Destination already exists: <dir>"; no command
\* has been or is issued, the file system is unchanged, and nothing runs
\* after that error.
C5_ExistingDestination ==
    [][ /\ (pc = "clone_check" /\ repo_dir.parts \in DOMAIN fs) =>
              /\ pc' = "exited"
              /\ exc'.kind = "FileExistsError"
              /\ exc'.msg = <<"Destination already exists: ">> \o PathStr(repo_dir)
              /\ status' # << 0 >>
              /\ trace' = << >>
              /\ fs' = fs
        /\ exc.kind # "FileExistsError" ]_vars

\* C5 witness: the run ended on the pre-existing destination /w/d.
C5_Witness ==
    /\ pc = "exited"
    /\ exc.kind = "FileExistsError"
    /\ repo_dir.parts = Cwd \o << <<"d">> >>
    /\ fs[repo_dir.parts] = {"preexisting"}
    /\ trace = << >>

Argv(i) == trace[i].argv

IsIdentity(i) == Len(Argv(i)) = 4 /\ Argv(i)[2] = <<"config">>
IsInstall(i) == Argv(i)[1] = <<"pdm">>
IsRemoteAdd(i) == Argv(i)[2] = <<"remote">>
IsPush(i) == Argv(i)[2] = <<"push">>

AllSucceeded == trace # << >> /\ \A i \in DOMAIN trace : ~Failed(i)

\* C6: a finished run without push target whose commands all succeeded has
\* issued the mirror clone into <resolved>/.git (with the core.bare and
\* checkout commands that complete the clone), then `config user.name`,
\* then `config user.email`, then one `pdm install`, the last five in the
\* resolved directory, and printed "Done." last with exit status 0; a run
\* without push target never issues a remote-add or push command.
C6_NoPushTarget ==
    args.push_to = << >> =>
        /\ \A i \in DOMAIN trace : ~IsRemoteAdd(i) /\ ~IsPush(i)
        /\ remote = {}
        /\ (pc = "exited" /\ AllSucceeded) =>
              /\ Len(trace) = 6
              /\ Argv(1) = << <<"git">>, <<"clone">>, <<"--mirror">>, args.repo_url,
                              PathStr(Target) \o <<"/">> \o DotGit >>
              /\ Argv(2) = << <<"git">>, <<"config">>, <<"--bool">>, <<"core.bare">>,
                              <<"false">> >>
              /\ Argv(3) = << <<"git">>, <<"checkout">> >>
              /\ Argv(4) = << <<"git">>, <<"config">>, <<"user.name">>, args.user_name >>
              /\ Argv(5) = << <<"git">>, <<"config">>, <<"user.email">>, args.user_email >>
              /\ Argv(6) = << <<"pdm">>, <<"install">> >>
              /\ \A i \in 2..6 : trace[i].cwd = [given |-> TRUE, path |-> Target]
              /\ Cardinality({i \in DOMAIN trace : IsIdentity(i)}) = 2
              /\ Cardinality({i \in DOMAIN trace : IsInstall(i)}) = 1
              /\ out[Len(out)] = <<"Done.">>
              /\ status = << 0 >>

\* C6 witness: a successful run without push target, cloned into the
\* directory derived from the locator.
C6_Witness ==
    /\ pc = "exited"
    /\ args.push_to = << >>
    /\ args.dest = << >>
    /\ AllSucceeded
    /\ status = << 0 >>
    /\ fs[repo_dir.parts] =
          {"mirror", "core_bare", "checkout", "user_name", "user_email", "pdm_install"}

\* the reference namespaces a push command sends to the target
Pushed(i) ==
    IF \E k \in DOMAIN Argv(i) : Argv(i)[k] \in {<<"--mirror">>, <<"--all">>}
    THEN {"heads", "tags", "pull", "merge-requests"}
    ELSE {ns \in {"heads", "tags", "pull", "merge-requests"} :
            \E k \in 4..Len(Argv(i)) :
                LET src == Before(Argv(i)[k], ":")
                IN  src \in {<<"refs/", ns, "/*">>, <<"refs/", "*">>, <<"*">>}}

\* C7: remote-add is the command issued right after a `pdm install` that
\* exited 0, in a run with push target, and names that target; the push of
\* refs/heads/* comes right after a remote-add that exited 0, the push of
\* refs/tags/* right after a heads push that exited 0; no push covers pull
\* or merge-request references; a run with push target whose commands all
\* succeeded ends with these three commands and exit status 0.
C7_PushPhase ==
    /\ \A i \in DOMAIN trace :
          /\ IsRemoteAdd(i) =>
                /\ args.push_to # << >>
                /\ Argv(i) = << <<"git">>, <<"remote">>, <<"add">>, <<"target">>,
                                args.push_to >>
                /\ i > 1 /\ IsInstall(i - 1) /\ ~Failed(i - 1)
          /\ IsPush(i) =>
                /\ Pushed(i) \in {{"heads"}, {"tags"}}
                /\ i > 1 /\ ~Failed(i - 1)
                /\ Pushed(i) = {"heads"} => IsRemoteAdd(i - 1)
                /\ Pushed(i) = {"tags"} => IsPush(i - 1) /\ Pushed(i - 1) = {"heads"}
                /\ trace[i].cwd = [given |-> TRUE, path |-> Target]
    /\ (pc = "exited" /\ AllSucceeded /\ args.push_to # << >>) =>
          /\ Len(trace) = 9
          /\ IsInstall(6) /\ IsRemoteAdd(7) /\ IsPush(8) /\ IsPush(9)
          /\ remote = {"heads", "tags"}
          /\ status = << 0 >>

\* C7 witness: a run with push target that pushed branches and tags.
C7_Witness ==
    /\ pc = "exited"
    /\ args.push_to # << >>
    /\ Len(trace) = 9
    /\ AllSucceeded
    /\ remote = {"heads", "tags"}

\* the path of the locator with its trailing "/" ignored
TrimmedPath == RStrip(UrlPath(args.repo_url), {"/"})

\* the final segment of that path: the text after its last "/"
FinalSegment == Slice(TrimmedPath, RFind(TrimmedPath, "/") + 1, Len(TrimmedPath))

\* seg with one trailing ".git" removed
WithoutSuffix(seg) ==
    IF EndsWith(seg, DotGit) THEN Slice(seg, 1, Len(seg) - 4) ELSE seg

Derived == tail.set /\ pc # "select_dir"

\* C8 as stated: whenever the path ends in a non-empty final segment (other
\* than the bare suffix ".git", which C9 covers), derivation returns that
\* segment with one trailing ".git" removed.
C8_FinalSegmentAsStated ==
    (Derived /\ FinalSegment \notin {<< >>, DotGit}) =>
        /\ exc = NoExc
        /\ tail.text = WithoutSuffix(FinalSegment)
        /\ repo_dir = PathOf(WithoutSuffix(FinalSegment))

\* C8 amended: whenever the path ends in a final segment that is not empty,
\* not "." and not the bare suffix ".git", derivation returns that segment
\* with one trailing ".git" removed, trailing "/" being ignored.
C8_FinalSegment ==
    (Derived /\ FinalSegment \notin {<< >>, <<".">>, DotGit}) =>
        /\ exc = NoExc
        /\ pc = "resolve_dir"
        /\ tail.text = WithoutSuffix(FinalSegment)
        /\ repo_dir = PathOf(WithoutSuffix(FinalSegment))

\* C8 witness: the locator t.git/ was derived to t (suffix removed, trailing
\* slash ignored).
C8_Witness ==
    /\ Derived
    /\ args.repo_url = <<"t", ".", "g", "i", "t", "/">>
    /\ tail.text = <<"t">>
    /\ repo_dir.parts = << <<"t">> >>

\* C9: derivation ends in a ValueError when the path is empty or holds only
\* "/" characters and when its final segment is exactly ".git"; when it
\* returns, the name it returns is not empty.
C9_EmptyNameRejected ==
    Derived =>
        /\ TrimmedPath = << >> => exc.kind = "ValueError" /\ exc.msg = MsgNoName
        /\ FinalSegment = DotGit => exc.kind = "ValueError" /\ exc.msg = MsgEmptyGit
        /\ exc.kind = "ValueError" => pc = "exited" /\ status # << 0 >>
        /\ exc = NoExc => tail.text # << >>

\* C9 witness: https://x/.git failed with the second validation error.
C9_Witness ==
    /\ Derived
    /\ args.repo_url = Https \o <<"/", ".", "g", "i", "t">>
    /\ exc.kind = "ValueError"
    /\ exc.msg = MsgEmptyGit
    /\ tail.text = << >>

RunFailed == pc = "exited" /\ result.rc # 0

CommandLine == Join(Argv(Len(trace)), <<" ">>)

\* C10 as stated: the message of a failed command contains the command
\* line, contains the captured stdout when that is not empty and the
\* captured stderr when that is not empty, and has no section for an empty
\* stream.
C10_MessageAsStated ==
    RunFailed =>
        /\ Contains(exc.msg, CommandLine)
        /\ result.stdout # << >> => Contains(exc.msg, result.stdout)
        /\ result.stderr # << >> => Contains(exc.msg, result.stderr)
        /\ result.stdout = << >> => ~Contains(exc.msg, <<"stdout:">>)
        /\ result.stderr = << >> => ~Contains(exc.msg, <<"stderr:">>)

\* C10 amended: the message of a failed command contains the command line,
\* a stdout section holding the captured stdout without its leading and
\* trailing whitespace when that is not empty, and likewise a stderr
\* section; a stream that is empty or holds only whitespace has no section.
C10_Message ==
    RunFailed =>
        /\ exc.kind = "RuntimeError"
        /\ Contains(exc.msg, <<"Command failed: ">> \o CommandLine)
        /\ Strip(result.stdout) # << >> =>
              Contains(exc.msg, <<"stdout:", "\n">> \o Strip(result.stdout))
        /\ Strip(result.stderr) # << >> =>
              Contains(exc.msg, <<"stderr:", "\n">> \o Strip(result.stderr))
        /\ Strip(result.stdout) = << >> => ~Contains(exc.msg, <<"stdout:">>)
        /\ Strip(result.stderr) = << >> => ~Contains(exc.msg, <<"stderr:">>)

\* C10 witness: `pdm install` failed with only whitespace on stdout and
\* text on stderr.
C10_Witness ==
    /\ RunFailed
    /\ IsInstall(Len(trace))
    /\ result.stdout = <<"\n">>
    /\ result.stderr = <<"o", "\n">>
    /\ exc.msg = <<"Command failed: ", "pdm", " ", "install", "\n", "stderr:", "\n", "o">>

\* C11 as stated: every command issued, the clone command included, was
\* launched with a working directory given.
C11_CwdAlwaysGivenAsStated ==
    \A i \in DOMAIN trace : trace[i].cwd.given

\* C11 amended: every command after the first was launched with an absolute
\* working directory given; the first command, the mirror clone, was
\* launched without one and names its target by an absolute path.
C11_CwdGivenAfterClone ==
    \A i \in DOMAIN trace :
        IF i = 1
        THEN /\ Argv(1)[2] = <<"clone">>
             /\ ~trace[1].cwd.given
             /\ Argv(1)[5][1] = "/"
        ELSE /\ trace[i].cwd.given
             /\ trace[i].cwd.path.abs

\* C11 witness: the clone and the core.bare command have been issued.
C11_Witness ==
    /\ Len(trace) >= 2
    /\ ~trace[1].cwd.given
    /\ trace[2].cwd.given
    /\ Argv(2)[4] = <<"core.bare">>

SetsIdentity(i) ==
    /\ Argv(i)[2] = <<"config">>
    /\ \E k \in DOMAIN Argv(i) : Argv(i)[k] \in {<<"user.name">>, <<"user.email">>}

WidensScope(i) ==
    \E k \in DOMAIN Argv(i) : Argv(i)[k] \in {<<"--global">>, <<"--system">>}

\* C12: a command that sets user.name or user.email is issued only after
\* the three commands of the clone step exited 0, runs in the resolved
\* clone directory and carries no --global or --system flag; no command of
\* a run carries such a flag.
C12_IdentityRepositoryScoped ==
    \A i \in DOMAIN trace :
        /\ ~WidensScope(i)
        /\ SetsIdentity(i) =>
              /\ i > 3
              /\ \A j \in 1..3 : ~Failed(j)
              /\ Argv(1)[2] = <<"clone">> /\ Argv(3) = << <<"git">>, <<"checkout">> >>
              /\ trace[i].cwd = [given |-> TRUE, path |-> Target]
              /\ Target.parts \in DOMAIN fs
              /\ Len(Argv(i)) = 4

\* C12 witness: both identity fields have been written to the clone.
C12_Witness ==
    /\ Len(trace) >= 5
    /\ SetsIdentity(4) /\ SetsIdentity(5)
    /\ ~Failed(4) /\ ~Failed(5)
    /\ {"user_name", "user_email"} \subseteq fs[repo_dir.parts]

\* C13: no command line occurs twice in the trace of a run, the run issues
\* at most nine commands, and a command that exited non-zero is the last
\* one: the run has ended and its exit status is not 0.
C13_NoRetries ==
    /\ \A i, j \in DOMAIN trace : Argv(i) = Argv(j) => i = j
    /\ Len(trace) <= 9
    /\ \A i \in DOMAIN trace :
          Failed(i) => i = Len(trace) /\ pc = "exited" /\ status # << 0 >>

\* C13 witness: the second push failed and ended the run.
C13_Witness ==
    /\ pc = "exited"
    /\ Len(trace) = 9
    /\ Failed(9)
    /\ remote = {"heads"}

\* what a command of the pipeline leaves in the clone when it exits 0
Leaves(i) ==
    CASE Argv(i)[2] = <<"clone">> -> "mirror"
      [] Argv(i)[2] = <<"checkout">> -> "checkout"
      [] Argv(i)[2] = <<"install">> -> "pdm_install"
      [] Argv(i)[2] = <<"remote">> -> "remote_add"
      [] Argv(i)[2] = <<"push">> -> "none"
      [] Argv(i)[3] = <<"--bool">> -> "core_bare"
      [] Argv(i)[3] = <<"user.name">> -> "user_name"
      [] OTHER -> "user_email"

\* C14: no step removes a directory, an artefact in a directory or a
\* reference on the push target; after a run failed behind a successful
\* mirror clone the destination exists and holds what every command that
\* exited 0 left there, and the failing step issued the failed command last.
C14_NoCleanup ==
    [][ /\ \A d \in DOMAIN fs : d \in DOMAIN fs' /\ fs[d] \subseteq fs'[d]
        /\ remote \subseteq remote'
        /\ (pc' = "exited" /\ exc'.kind # "none" /\ Len(trace') >= 2) =>
              /\ repo_dir'.parts \in DOMAIN fs'
              /\ \A i \in 1..(Len(trace') - 1) :
                    Leaves(i)' \in fs'[repo_dir'.parts] \cup {"none"}
              /\ trace'[Len(trace')].rc # 0 ]_vars

\* C14 witness: `pdm install` failed and the configured clone is in place.
C14_Witness ==
    /\ pc = "exited"
    /\ Len(trace) = 6
    /\ Failed(6)
    /\ fs[repo_dir.parts] = {"mirror", "core_bare", "checkout", "user_name", "user_email"}

BeforeClone == pc \in {"ensure_git", "ensure_pdm", "select_dir", "resolve_dir"}

\* C15: once the statement of line 116 has run, repo_dir is absolute and
\* never changes; the clone command targets <repo_dir>/.git and every later
\* command runs with repo_dir as its working directory.
C15_ResolvedDirectoryFixed ==
    [][ /\ ~BeforeClone => (repo_dir' = repo_dir /\ repo_dir.abs)
        /\ \A i \in DOMAIN trace' :
              IF i = 1
              THEN Argv(1)' = << <<"git">>, <<"clone">>, <<"--mirror">>, args.repo_url,
                                 PathStr(repo_dir) \o <<"/">> \o DotGit >>
              ELSE trace'[i].cwd = [given |-> TRUE, path |-> repo_dir] ]_vars

\* C15 witness: all nine commands ran, the last eight in /w/t.
C15_Witness ==
    /\ Len(trace) = 9
    /\ repo_dir = [abs |-> TRUE, parts |-> Cwd \o << <<"t">> >>]
    /\ \A i \in 2..9 : trace[i].cwd.path = repo_dir

DonePrinted == \E k \in DOMAIN out : out[k] = <<"Done.">>

\* how a run may end: after a failure with a diagnostic on stderr, a
\* non-zero exit status and no "Done."; after no failure with "Done."
\* printed last, nothing on stderr and exit status 0
EndedProperly ==
    /\ pc = "exited"
    /\ Len(trace) <= 9
    /\ DonePrinted => AllSucceeded
    /\ \/ /\ AnyFailure
          /\ err # << >>
          /\ status \notin {<< >>, << 0 >>}
          /\ ~DonePrinted
       \/ /\ ~AnyFailure
          /\ err = << >>
          /\ status = << 0 >>
          /\ out[Len(out)] = <<"Done.">>

\* C16: every run eventually ends, having issued at most nine commands,
\* either with a diagnostic on stderr and a non-zero exit status or with
\* "Done." and exit status 0; "Done." is printed only in a run all of whose
\* commands exited 0 and in which no check failed.
C16_Terminates == <>EndedProperly

\* C16 witness: a run that ended on the failure of its ninth command.
C16_Witness ==
    /\ pc = "exited"
    /\ Len(trace) = 9
    /\ Failed(9)
    /\ err # << >>
    /\ status = << 1 >>

FirstRunBrokeAfterClone ==
    /\ prev.ran
    /\ prev.trace # << >>
    /\ prev.trace[1].rc = 0
    /\ \E i \in 2..Len(prev.trace) : prev.trace[i].rc # 0

\* C17: in a second run with the same arguments, after a first run whose
\* mirror clone exited 0 and in which a later command failed, no command is
\* issued, the destination still holds the first run's clone, and the run
\* ends with "Destination already exists: <dir>" and exit status 1.
C17_SecondRunStops ==
    FirstRunBrokeAfterClone =>
        /\ trace = << >>
        /\ "mirror" \in fs[Target.parts]
        /\ pc \in {"ensure_git", "ensure_pdm", "select_dir", "resolve_dir",
                   "clone_check", "exited"}
        /\ pc = "exited" =>
              /\ exc.kind = "FileExistsError"
              /\ exc.msg = <<"Destination already exists: ">> \o PathStr(Target)
              /\ status = << 1 >>

\* C17 witness: the first run failed at `pdm install`, the second has ended.
C17_Witness ==
    /\ prev.ran
    /\ Len(prev.trace) = 6
    /\ prev.trace[6].rc # 0
    /\ pc = "exited"
    /\ exc.kind = "FileExistsError"

\* C18: with a non-empty --dest, derive_repo_dir is not called and no
\* ValueError arises, whatever the locator: repo_dir becomes the override,
\* made absolute, and the run ends at the clone step or behind it;
\* derive_repo_dir is called exactly when --dest is empty.
C18_OverrideSkipsDerivation ==
    /\ tail.set => args.dest = << >>
    /\ (args.dest = << >> /\ pc \notin {"ensure_git", "ensure_pdm", "select_dir"}
            /\ Missing = {}) => tail.set
    /\ args.dest # << >> =>
          /\ exc.kind # "ValueError"
          /\ ~BeforeClone /\ pc # "exited" => repo_dir = Resolve(PathOf(args.dest))
          /\ (pc = "exited" /\ Missing = {}) =>
                \/ exc.kind = "FileExistsError"
                \/ Argv(1)[5] = PathStr(Resolve(PathOf(args.dest))) \o <<"/">> \o DotGit

\* C18 witness: https://x, which has no path, was cloned into /w/d.
C18_Witness ==
    /\ args.dest = <<"d">>
    /\ args.repo_url = Https
    /\ pc = "exited"
    /\ AllSucceeded
    /\ ~tail.set
    /\ repo_dir.parts = Cwd \o << <<"d">> >>

\* C19: a run that ended without issuing a command reports the first
\* failing check in the order git, pdm, derivation, destination; a missing
\* tool or an underivable locator always leaves the trace empty.
C19_FirstFailingCheck ==
    /\ (Missing # {} \/ ~Derivable) => trace = << >>
    /\ (pc = "exited" /\ trace = << >>) =>
          IF "git" \in Missing
          THEN exc.kind = "RuntimeError" /\ exc.msg = MsgTool("git")
          ELSE IF "pdm" \in Missing
          THEN exc.kind = "RuntimeError" /\ exc.msg = MsgTool("pdm")
          ELSE IF ~Derivable
          THEN exc.kind = "ValueError"
          ELSE /\ exc.kind = "FileExistsError"
               /\ Target.parts \in DOMAIN fs

\* C19 witness: git and pdm are both missing and the locator is
\* underivable; the run reported git.
C19_Witness ==
    /\ pc = "exited"
    /\ Missing = {"git", "pdm"}
    /\ ~Derivable
    /\ exc.msg = MsgTool("git")

====
